---- MODULE Spec2Model ----
(***************************************************************************)
(* Model of SDLInputManager (qt/src/SDLInputManager.cpp): the device       *)
(* registry, the Worker loop run(), the cross-thread calls runInSDLThread, *)
(* rumble and stop, the axis and hat discretizers, and the consumer of the  *)
(* event signal, which calls the discretizers from its own thread.         *)
(***************************************************************************)
EXTENDS Integers, Sequences, FiniteSets, TLC

\* ---------------------------------------------------------------- bounds
MaxSubmits == 2      \* runInSDLThread calls made in one behaviour
MaxQueue == 2        \* pushed events waiting in the SDL queue
MaxLog == 2          \* closures recorded in ranLog
MaxSink == 2         \* forwarded axis and hat events the consumer has not handled yet

Ids == {0, 1}         \* instance ids the driver library hands out
Threads == {1, 2}     \* external threads calling the management API
RumbleVals == {1, 2} \* distinct (low_freq, high_freq, duration_ms) tuples
NoClosure == 0

\* ---------------------------------------------------------------- events
\* which: the instance id for button and removed; the other cases of run()'s switch
\* do not read it
HwEvents == [type : {"button", "removed"}, which : Ids]
            \cup [type : {"axis", "hat", "added", "other"}, which : {0}]
PushedEvent(t) == [type |-> t, which |-> 0]
\* the event pushed by rumble(). which: the tuple that call stored (no field of the
\* SDL event; kept to compare it with the tuple the Worker passes to the driver)
RumbleEvent(v) == [type |-> "rumble", which |-> v]
InitialEvent == [type |-> "none", which |-> 0]

VARIABLES
    devices,      \* std::map<SDL_JoystickID, SDLInputDevice>
    queue,        \* events pushed with SDL_PushEvent, not yet dequeued
    e,            \* run()'s SDL_Event e: kept across iterations
    run,          \* run()'s loop flag; FALSE once the loop is left
    rumble_end,   \* run()'s std::optional<int> rumble_end has a value
    rumble_data,  \* tuple stored by rumble()
    on_thread,    \* the closure stored by runInSDLThread (NoClosure: empty)
    pc,           \* per external thread: idle, or in cv.wait, or in QThread::wait
    mine,         \* per external thread: the closure it passed to the call it is in
    late,         \* per external thread: it waits on a submit made after the loop ended
    nPushed,      \* number of runInSDLThread calls so far (closure ids are 1..nPushed)
    ranLog,       \* closures the Worker ran, in order (first MaxLog)
    live,         \* ids opened by AddDevice and not removed by RemoveDevice since
    last,         \* what the latest loop iteration did
    ax,           \* axis discretizer under test: [center, then, out]
    ht,           \* hat discretizer under test: [state, out]
    sink          \* the thread of the slot connected to the event signal

vars == <<devices, queue, e, run, rumble_end, rumble_data, on_thread, pc, mine,
          late, nPushed, ranLog, live, last, ax, ht, sink>>

mgrVars == <<devices, queue, e, run, rumble_end, rumble_data, on_thread, pc, mine,
             late, nPushed, ranLog, live, last, sink>>

\* ---------------------------------------------------------------- registry
EmptyDevices == [i \in {} |-> 0]

\* value-initialised SDLInputDevice, as std::map::operator[] creates it
DefaultDevice ==
    [index |-> 0, is_controller |-> FALSE, joystick |-> FALSE, instance_id |-> 0,
     axes |-> <<>>, hats |-> <<>>]

\* axes and hats as SDLInputDevice::open fills them for a device with one axis
\* resting at 0 and one hat: axes[i] = {initial, last = initial}, hats[i] = {state 0}
OpenedAxes == <<[initial |-> 0, last |-> 0]>>
OpenedHats == <<[state |-> 0]>>

Slots(devs) == {devs[i].index : i \in DOMAIN devs}

\* a slot taken from the number of devices instead of the first gap
FindFirstOpenIndexByCount(devs) == Cardinality(DOMAIN devs)

RECURSIVE FirstOpenFrom(_, _)
FirstOpenFrom(devs, i) ==
    IF \A k \in DOMAIN devs : devs[k].index # i THEN i ELSE FirstOpenFrom(devs, i + 1)

FindFirstOpenIndex(devs) == FirstOpenFrom(devs, 0)

\* results of SDLInputDevice::open: the joystick handle is null, or a device
\* with the instance id and kind the driver library reports
OpenResults == {[ok |-> FALSE, id |-> 0, ctrl |-> FALSE]}
               \cup [ok : {TRUE}, id : Ids, ctrl : BOOLEAN]

\* std::map::insert keeps the existing entry when the key is present
MapInsert(devs, k, d) == IF k \in DOMAIN devs THEN devs ELSE devs @@ (k :> d)

\* the device inserted before its slot is assigned and whether or not it opened
AddDeviceEarlyInsert(devs, res) ==
    MapInsert(devs, res.id,
              [index |-> -1, is_controller |-> res.ctrl, joystick |-> res.ok,
               instance_id |-> res.id, axes |-> OpenedAxes, hats |-> OpenedHats])

AddDevice(devs, res) ==
    IF ~res.ok THEN devs
    ELSE MapInsert(devs, res.id,
                   [index |-> FindFirstOpenIndex(devs), is_controller |-> res.ctrl,
                    joystick |-> TRUE, instance_id |-> res.id,
                    axes |-> OpenedAxes, hats |-> OpenedHats])

\* the entry erased by its slot index instead of its instance id
RemoveDeviceBySlot(devs, id) ==
    [k \in {j \in DOMAIN devs : devs[j].index # id} |-> devs[k]]

RemoveDevice(devs, id) ==
    IF id \notin DOMAIN devs THEN devs
    ELSE [k \in DOMAIN devs \ {id} |-> devs[k]]

\* devices[which]: inserts a value-initialised device when the key is absent
MapIndex(devs, k) == MapInsert(devs, k, DefaultDevice)

\* ---------------------------------------------------------------- what an iteration did
Quiet ==
    [timedOut |-> FALSE, stopped |-> FALSE, stopTo |-> {}, started |-> FALSE,
     startTo |-> {}, emitted |-> FALSE, slot |-> 0, ran |-> NoClosure,
     obs |-> EmptyDevices, added |-> {}, removed |-> {}, opened |-> {},
     closed |-> {}, params |-> 0]

\* actuation calls made for every registry entry, whatever its kind
RumbleTargetsAll(devs) == DOMAIN devs

\* the loop "for (const auto [id, dev] : devices) SDL_GameControllerRumble(dev.controller, ...)":
\* the devices the calls reach. dev.controller is null for a plain joystick and for
\* a value-initialised entry, and the call on a null handle reaches no device
RumbleTargets(devs) == {id \in DOMAIN devs : devs[id].is_controller}

\* ---------------------------------------------------------------- axis discretizer
\* the thresholds taken as inclusive
pressedInclusive(center, axis) ==
    IF axis >= center + ((32767 - center) \div 3) THEN 1
    ELSE IF axis <= center - ((center + 32768) \div 3) THEN -1
    ELSE 0

pressed(center, axis) ==
    IF axis > center + ((32767 - center) \div 3) THEN 1
    ELSE IF axis < center - ((center + 32768) \div 3) THEN -1
    ELSE 0

NoEvent == [some |-> FALSE, direction |-> 0, pressed |-> FALSE]

\* the last sample stored only when no event is reported
DiscretizeJoyAxisEventNoStore(center, then, now) ==
    LET was_pressed_then == pressed(center, then)
        is_pressed_now == pressed(center, now)
    IN  IF was_pressed_then = is_pressed_now
        THEN [then |-> now, out |-> NoEvent]
        ELSE [then |-> then,
              out |-> [some |-> TRUE,
                       direction |-> IF is_pressed_now # 0 THEN is_pressed_now
                                     ELSE was_pressed_then,
                       pressed |-> (is_pressed_now # 0)]]

\* [then, out]: the stored last sample afterwards and the optional event
DiscretizeJoyAxisEvent(center, then, now) ==
    LET was_pressed_then == pressed(center, then)
        is_pressed_now == pressed(center, now)
    IN  IF was_pressed_then = is_pressed_now
        THEN [then |-> now, out |-> NoEvent]
        ELSE [then |-> now,
              out |-> [some |-> TRUE,
                       direction |-> IF is_pressed_now # 0 THEN is_pressed_now
                                     ELSE was_pressed_then,
                       pressed |-> (is_pressed_now # 0)]]

\* ---------------------------------------------------------------- hat discretizer
SDL_HAT_UP == 1
SDL_HAT_RIGHT == 2
SDL_HAT_DOWN == 4
SDL_HAT_LEFT == 8

\* the four directions scanned in the order of their values
HatScanByValue == <<SDL_HAT_UP, SDL_HAT_RIGHT, SDL_HAT_DOWN, SDL_HAT_LEFT>>

\* the order of "for (auto &s : { SDL_HAT_UP, SDL_HAT_DOWN, SDL_HAT_LEFT, SDL_HAT_RIGHT })"
HatScan == <<SDL_HAT_UP, SDL_HAT_DOWN, SDL_HAT_LEFT, SDL_HAT_RIGHT>>

\* state & s, for a mask s of one bit
BitAnd(state, s) == ((state \div s) % 2) * s

NoHatEvent == [some |-> FALSE, direction |-> 0, pressed |-> FALSE]

\* the loop that reports a direction and leaves old_state as it was
RECURSIVE HatScanFromNoStore(_, _, _)
HatScanFromNoStore(old_state, new_state, i) ==
    IF i > Len(HatScan) THEN [state |-> old_state, out |-> NoHatEvent]
    ELSE IF BitAnd(old_state, HatScan[i]) # BitAnd(new_state, HatScan[i])
         THEN [state |-> old_state,
               out |-> [some |-> TRUE, direction |-> HatScan[i],
                        pressed |-> (BitAnd(new_state, HatScan[i]) # 0)]]
         ELSE HatScanFromNoStore(old_state, new_state, i + 1)

\* the loop from its i-th direction on: the first direction whose bit differs is
\* reported and old_state = new_state; when no direction differs the loop ends,
\* std::nullopt is returned and old_state is left as it was
RECURSIVE HatScanFrom(_, _, _)
HatScanFrom(old_state, new_state, i) ==
    IF i > Len(HatScan) THEN [state |-> old_state, out |-> NoHatEvent]
    ELSE IF BitAnd(old_state, HatScan[i]) # BitAnd(new_state, HatScan[i])
         THEN [state |-> new_state,
               out |-> [some |-> TRUE, direction |-> HatScan[i],
                        pressed |-> (BitAnd(new_state, HatScan[i]) # 0)]]
         ELSE HatScanFrom(old_state, new_state, i + 1)

\* [state, out]: the stored hat state afterwards and the optional event
DiscretizeHatEvent(old_state, new_state) ==
    IF old_state = new_state THEN [state |-> old_state, out |-> NoHatEvent]
    ELSE HatScanFrom(old_state, new_state, 1)

\* ---------------------------------------------------------------- initial state
\* prev: the event reported last before the latest step
AxIdle ==
    [center |-> 0, was |-> 0, then |-> 0, now |-> 0, out |-> NoEvent, stepped |-> FALSE,
     prev |-> NoEvent]

\* before, outBefore: the sample of the step before the latest one (-1: there was
\* none) and what that step reported
HtIdle ==
    [was |-> 0, state |-> 0, now |-> 0, out |-> NoHatEvent, stepped |-> FALSE,
     before |-> -1, outBefore |-> NoHatEvent]

\* the consumer of the event signal (SDL_Event is registered as a meta type, as a
\* connection queued to another thread needs). on: a slot is connected; q: the axis
\* and hat events delivered to its thread and not handled yet; cur: the event of its
\* latest discretizer call; pc, ref, now: where it is in that call, the id of the
\* device it holds a reference to, and the sample; threw: the call ended in
\* std::out_of_range; ub: the call used storage that is no part of a registered
\* device; out: the event the call returned
NoSample == [type |-> "none", which |-> 0, open |-> FALSE]

SinkIdle(on) ==
    [on |-> on, q |-> <<>>, cur |-> NoSample, pc |-> "idle", ref |-> 0, now |-> 0,
     threw |-> FALSE, ub |-> FALSE, out |-> NoEvent]

InitMgr ==
    /\ devices = EmptyDevices
    /\ queue = <<>>
    /\ e = InitialEvent
    /\ run = TRUE
    /\ rumble_end = FALSE
    /\ rumble_data = 0
    /\ on_thread = NoClosure
    /\ pc = [t \in Threads |-> "idle"]
    /\ mine = [t \in Threads |-> NoClosure]
    /\ late = [t \in Threads |-> FALSE]
    /\ nPushed = 0
    /\ ranLog = <<>>
    /\ live = {}
    /\ last = Quiet

Init == InitMgr /\ sink = SinkIdle(FALSE) /\ ax = AxIdle /\ ht = HtIdle

\* ---------------------------------------------------------------- external threads
\* SDL_PushEvent: fails once SDL_Quit has run
PushEvent(q, ev) == IF run THEN Append(q, ev) ELSE q

CanCall(t) == pc[t] = "idle"

\* runInSDLThread up to and including cv.wait(lk) releasing the mutex
Submit(t) ==
    /\ CanCall(t)
    /\ nPushed < MaxSubmits
    /\ Len(queue) < MaxQueue
    /\ on_thread' = nPushed + 1
    /\ mine' = [mine EXCEPT ![t] = nPushed + 1]
    /\ late' = [late EXCEPT ![t] = ~run]
    /\ nPushed' = nPushed + 1
    /\ queue' = PushEvent(queue, PushedEvent("work"))
    /\ pc' = [pc EXCEPT ![t] = "cv_wait"]
    /\ UNCHANGED <<devices, e, run, rumble_end, rumble_data, ranLog, live, last, ax, ht, sink>>

\* cv.wait(lk) returns and runInSDLThread with it
Return(t) ==
    /\ pc' = [pc EXCEPT ![t] = "idle"]
    /\ mine' = [mine EXCEPT ![t] = NoClosure]
    /\ late' = [late EXCEPT ![t] = FALSE]

\* cv.wait(lk) has no predicate: it may return without a notification
SpuriousWake(t) ==
    /\ pc[t] = "cv_wait"
    /\ Return(t)
    /\ UNCHANGED <<devices, queue, e, run, rumble_end, rumble_data, on_thread,
                   nPushed, ranLog, live, last, ax, ht, sink>>

\* rumble(): store the tuple and push the rumble event
Rumble(v) ==
    /\ Len(queue) < MaxQueue
    /\ rumble_data' = v
    /\ queue' = PushEvent(queue, RumbleEvent(v))
    /\ UNCHANGED <<devices, e, run, rumble_end, on_thread, pc, mine, late, nPushed,
                   ranLog, live, last, ax, ht, sink>>

\* stop(): push SDL_QUIT, then QThread::wait()
Stop(t) ==
    /\ CanCall(t)
    /\ Len(queue) < MaxQueue
    /\ queue' = PushEvent(queue, PushedEvent("quit"))
    /\ pc' = [pc EXCEPT ![t] = "joining"]
    /\ UNCHANGED <<devices, e, run, rumble_end, rumble_data, on_thread, mine, late,
                   nPushed, ranLog, live, last, ax, ht, sink>>

\* QThread::wait() returns once run() has returned
Joined(t) ==
    /\ pc[t] = "joining"
    /\ ~run
    /\ pc' = [pc EXCEPT ![t] = "idle"]
    /\ UNCHANGED <<devices, queue, e, run, rumble_end, rumble_data, on_thread, mine,
                   late, nPushed, ranLog, live, last, ax, ht, sink>>

\* ---------------------------------------------------------------- the Worker: run()
\* SDL_WaitEvent / SDL_WaitEventTimeout: ev is the event the switch sees, to says
\* the wait timed out. A timed-out wait leaves e as it was.
Wait(ev, to) ==
    /\ run
    /\ \/ /\ ~to
          /\ queue # <<>>
          /\ ev = Head(queue)
       \/ /\ ~to
          /\ ev \in HwEvents
       \/ /\ to
          /\ rumble_end
          /\ queue = <<>>
          /\ ev = e
    /\ e' = ev

\* the SDL queue after the wait: a pushed event was taken from its head
Dequeued(ev, to) ==
    IF ~to /\ ev.type \in {"work", "rumble", "quit"} THEN Tail(queue) ELSE queue

\* the iteration's record after the wait: a timed-out wait clears rumble_end and
\* calls SDL_GameControllerRumble(dev.controller, 0, 0, 0) for every device
AfterWait(to) ==
    [Quiet EXCEPT !.timedOut = to, !.stopped = to,
                  !.stopTo = IF to THEN RumbleTargets(devices) ELSE {}]

\* the deadline cleared by every wake-up
EndAfterWaitAlways(to) == FALSE

EndAfterWait(to) == IF to THEN FALSE ELSE rumble_end

\* emit event(e, 0) for an axis or hat event: with a slot connected, the event is
\* queued to the consumer's thread. open: the device of the event was open when the
\* Worker forwarded it (no field of the event; kept to tell a sample that outlived
\* its device from a sample of a device that never was registered)
Emit(ev) ==
    IF sink.on
    THEN [sink EXCEPT !.q = Append(@, [type |-> ev.type, which |-> ev.which,
                                       open |-> (ev.which \in live)])]
    ELSE sink

\* case SDL_JOYAXISMOTION, SDL_JOYHATMOTION: emit event(e, 0)
OnAxisHat ==
    \E ev \in HwEvents, to \in BOOLEAN :
        /\ ev.type \in {"axis", "hat"}
        /\ Wait(ev, to)
        /\ queue' = Dequeued(ev, to)
        /\ rumble_end' = EndAfterWait(to)
        /\ last' = [AfterWait(to) EXCEPT !.emitted = TRUE]
        /\ sink.on => Len(sink.q) < MaxSink
        /\ sink' = Emit(ev)
        /\ UNCHANGED <<devices, run, rumble_data, on_thread, pc, mine, late, nPushed,
                       ranLog, live, ax, ht>>

\* case SDL_JOYBUTTONUP, SDL_JOYBUTTONDOWN: emit event(e, devices[e.jbutton.which].index)
OnButton ==
    \E ev \in HwEvents, to \in BOOLEAN :
        /\ ev.type = "button"
        /\ Wait(ev, to)
        /\ queue' = Dequeued(ev, to)
        /\ rumble_end' = EndAfterWait(to)
        /\ devices' = MapIndex(devices, ev.which)
        /\ last' = [AfterWait(to) EXCEPT !.emitted = TRUE,
                                         !.slot = devices'[ev.which].index]
        /\ UNCHANGED <<run, rumble_data, on_thread, pc, mine, late, nPushed,
                       ranLog, live, ax, ht, sink>>

\* case SDL_JOYDEVICEADDED: AddDevice(e.jdevice.which); emit event(e, 0).
\* The device of a dequeued attach event is new: its id is no id of an open device.
\* After a timed-out wait the stale event's device index is opened again, and the
\* driver library opens whatever is at that index now.
OnAdded ==
    \E ev \in HwEvents, to \in BOOLEAN, res \in OpenResults :
        /\ ev.type = "added"
        /\ (~to /\ res.ok) => res.id \notin live
        /\ Wait(ev, to)
        /\ queue' = Dequeued(ev, to)
        /\ rumble_end' = EndAfterWait(to)
        /\ devices' = AddDevice(devices, res)
        /\ live' = IF res.ok THEN live \cup {res.id} ELSE live
        /\ last' = [AfterWait(to) EXCEPT
                        !.emitted = TRUE,
                        !.opened = IF res.ok THEN {res.id} ELSE {},
                        !.added = DOMAIN devices' \ DOMAIN devices]
        /\ UNCHANGED <<run, rumble_data, on_thread, pc, mine, late, nPushed,
                       ranLog, ax, ht, sink>>

\* case SDL_JOYDEVICEREMOVED: RemoveDevice(e.jdevice.which); emit event(e, 0)
OnRemoved ==
    \E ev \in HwEvents, to \in BOOLEAN :
        /\ ev.type = "removed"
        /\ Wait(ev, to)
        /\ queue' = Dequeued(ev, to)
        /\ rumble_end' = EndAfterWait(to)
        /\ devices' = RemoveDevice(devices, ev.which)
        /\ live' = live \ {ev.which}
        /\ last' = [AfterWait(to) EXCEPT
                        !.emitted = TRUE,
                        !.closed = IF ev.which \in DOMAIN devices
                                   THEN {ev.which} ELSE {},
                        !.removed = DOMAIN devices \ DOMAIN devices']
        /\ UNCHANGED <<run, rumble_data, on_thread, pc, mine, late, nPushed,
                       ranLog, ax, ht, sink>>

\* case SDL_QUIT: run = false; the loop ends and SDL_Quit() runs, which discards
\* the event queue
OnQuit ==
    \E to \in BOOLEAN :
        /\ Wait(PushedEvent("quit"), to)
        /\ queue' = <<>>
        /\ rumble_end' = EndAfterWait(to)
        /\ run' = FALSE
        /\ last' = AfterWait(to)
        /\ UNCHANGED <<devices, rumble_data, on_thread, pc, mine, late, nPushed,
                       ranLog, live, ax, ht, sink>>

\* cv.notify_one(): one waiting thread, if there is any, leaves cv.wait
NotifyOne ==
    IF \E t \in Threads : pc[t] = "cv_wait"
    THEN \E t \in Threads :
            /\ pc[t] = "cv_wait"
            /\ Return(t)
    ELSE UNCHANGED <<pc, mine, late>>

\* default, e.type == work_event_id: if (on_thread) on_thread(devices); cv.notify_one()
OnWork ==
    \E to \in BOOLEAN :
        /\ Wait(PushedEvent("work"), to)
        /\ queue' = Dequeued(PushedEvent("work"), to)
        /\ rumble_end' = EndAfterWait(to)
        /\ ranLog' = IF on_thread # NoClosure /\ Len(ranLog) < MaxLog
                     THEN Append(ranLog, on_thread) ELSE ranLog
        /\ last' = [AfterWait(to) EXCEPT !.ran = on_thread, !.obs = devices]
        /\ NotifyOne
        /\ UNCHANGED <<devices, run, rumble_data, on_thread, nPushed, live, ax, ht, sink>>

\* default, e.type == rumble_event_id: set rumble_end, start actuation on every device
OnRumble ==
    \E ev \in {RumbleEvent(v) : v \in RumbleVals}, to \in BOOLEAN :
        /\ Wait(ev, to)
        /\ queue' = Dequeued(ev, to)
        /\ rumble_end' = TRUE
        /\ last' = [AfterWait(to) EXCEPT !.started = TRUE,
                                         !.startTo = RumbleTargets(devices),
                                         !.params = rumble_data]
        /\ UNCHANGED <<devices, run, rumble_data, on_thread, pc, mine, late, nPushed,
                       ranLog, live, ax, ht, sink>>

\* default, any other event type (also the zeroed e before the first event)
OnOther ==
    \E ev \in HwEvents \cup {InitialEvent}, to \in BOOLEAN :
        /\ ev.type \in {"other", "none"}
        /\ Wait(ev, to)
        /\ queue' = Dequeued(ev, to)
        /\ rumble_end' = EndAfterWait(to)
        /\ last' = AfterWait(to)
        /\ UNCHANGED <<devices, run, rumble_data, on_thread, pc, mine, late, nPushed,
                       ranLog, live, ax, ht, sink>>

Worker ==
    \/ OnAxisHat
    \/ OnButton
    \/ OnAdded
    \/ OnRemoved
    \/ OnQuit
    \/ OnWork
    \/ OnRumble
    \/ OnOther

External ==
    \/ \E t \in Threads : Submit(t)
    \/ \E t \in Threads : SpuriousWake(t)
    \/ \E v \in RumbleVals : Rumble(v)
    \/ \E t \in Threads : Stop(t)
    \/ \E t \in Threads : Joined(t)

Next == Worker \/ External

Spec == Init /\ [][Next]_vars

TypeOK ==
    /\ DOMAIN devices \subseteq Ids
    /\ Len(queue) <= MaxQueue
    /\ run \in BOOLEAN
    /\ rumble_end \in BOOLEAN
    /\ on_thread \in 0..MaxSubmits
    /\ \A t \in Threads : pc[t] \in {"idle", "cv_wait", "joining"}
    /\ live \subseteq Ids

\* ---------------------------------------------------------------- the consumer's calls
\* values of the samples the consumer's events carry
SinkSamples == {0, 20000}
SinkHatValues == {0, SDL_HAT_UP}

SinkCanCall(t) ==
    /\ sink.on
    /\ sink.pc = "idle"
    /\ sink.q # <<>>
    /\ Head(sink.q).type = t

\* the call ends in the exception devices.at() throws, or in the use of an element
\* of an empty vector: the consumer makes no further call
SinkFailed(threw) ==
    [sink EXCEPT !.q = Tail(@), !.cur = Head(sink.q), !.pc = "failed",
                 !.threw = threw, !.ub = ~threw]

\* DiscretizeHatEvent(event), the whole call: mtx is held from its first statement
\* to its return
HatCall ==
    /\ SinkCanCall("hat")
    /\ LET id == Head(sink.q).which
       IN  IF id \notin DOMAIN devices
           THEN /\ sink' = SinkFailed(TRUE)
                /\ UNCHANGED devices
           ELSE IF devices[id].hats = <<>>
           THEN /\ sink' = SinkFailed(FALSE)
                /\ UNCHANGED devices
           ELSE \E new_state \in SinkHatValues :
                   LET r == DiscretizeHatEvent(devices[id].hats[1].state, new_state)
                   IN  /\ devices' = [devices EXCEPT ![id].hats[1].state = r.state]
                       /\ sink' = [sink EXCEPT !.q = Tail(@), !.cur = Head(sink.q),
                                                !.now = new_state, !.out = r.out]
    /\ UNCHANGED <<queue, e, run, rumble_end, rumble_data, on_thread, pc, mine, late,
                   nPushed, ranLog, live, last, ax, ht>>

\* DiscretizeJoyAxisEvent(event) up to "auto &device = devices.at(...)": the
\* temporary std::unique_lock{mtx} is destroyed at the end of its own statement, so
\* mtx is free again before devices.at() runs
AxisBegin ==
    /\ SinkCanCall("axis")
    /\ LET id == Head(sink.q).which
       IN  IF id \notin DOMAIN devices
           THEN sink' = SinkFailed(TRUE)
           ELSE \E now \in SinkSamples :
                   sink' = [sink EXCEPT !.q = Tail(@), !.cur = Head(sink.q),
                                        !.pc = "axis_mid", !.ref = id, !.now = now]
    /\ UNCHANGED <<devices, queue, e, run, rumble_end, rumble_data, on_thread, pc, mine,
                   late, nPushed, ranLog, live, last, ax, ht>>

\* DiscretizeJoyAxisEvent(event) from "auto &then = device.axes[axis].last" to its
\* return, through the reference taken before. The reference is dangling when the
\* device was erased meanwhile, and device.axes is empty in a value-initialised entry
AxisEnd ==
    /\ sink.pc = "axis_mid"
    /\ IF sink.ref \notin DOMAIN devices \/ devices[sink.ref].axes = <<>>
       THEN /\ sink' = [sink EXCEPT !.pc = "failed", !.ub = TRUE]
            /\ UNCHANGED devices
       ELSE LET a == devices[sink.ref].axes[1]
                r == DiscretizeJoyAxisEvent(a.initial, a.last, sink.now)
            IN  /\ devices' = [devices EXCEPT ![sink.ref].axes[1].last = r.then]
                /\ sink' = [sink EXCEPT !.pc = "idle", !.out = r.out]
    /\ UNCHANGED <<queue, e, run, rumble_end, rumble_data, on_thread, pc, mine, late,
                   nPushed, ranLog, live, last, ax, ht>>

\* the Worker handling hardware events, with the consumer connected
InitSink == InitMgr /\ sink = SinkIdle(TRUE) /\ ax = AxIdle /\ ht = HtIdle

NextSink ==
    \/ OnAxisHat
    \/ OnButton
    \/ OnAdded
    \/ OnRemoved
    \/ HatCall
    \/ AxisBegin
    \/ AxisEnd

SpecSink == InitSink /\ [][NextSink]_vars

\* ---------------------------------------------------------------- the axis discretizer alone
Int16 == -32768..32767

\* rest samples captured at open time
Centers == {-32768, -100, 0, 1000, 32767}

UpperThreshold(c) == c + ((32767 - c) \div 3)
LowerThreshold(c) == c - ((c + 32768) \div 3)

\* raw samples: the extremes, the spec's example values, and every threshold of
\* every center with its two neighbours
Samples ==
    ({-32768, -20000, 0, 20000, 32767}
     \cup {UpperThreshold(c) + d : c \in Centers, d \in {-1, 0, 1}}
     \cup {LowerThreshold(c) + d : c \in Centers, d \in {-1, 0, 1}}) \cap Int16

\* an axis as SDLInputDevice::open leaves it, or after earlier samples
InitAxis ==
    /\ InitMgr
    /\ sink = SinkIdle(FALSE)
    /\ ax \in {[AxIdle EXCEPT !.center = c, !.then = t] : c \in Centers, t \in Samples}
    /\ ht = HtIdle

\* one call of DiscretizeJoyAxisEvent on the axis
AxisStep ==
    /\ \E now \in Samples :
         LET r == DiscretizeJoyAxisEvent(ax.center, ax.then, now)
         IN  ax' = [center |-> ax.center, was |-> ax.then, then |-> r.then,
                    now |-> now, out |-> r.out, stepped |-> TRUE,
                    prev |-> IF ax.out.some THEN ax.out ELSE ax.prev]
    /\ UNCHANGED <<mgrVars, ht>>

NextAxis == AxisStep

SpecAxis == InitAxis /\ [][NextAxis]_vars

\* ---------------------------------------------------------------- the hat discretizer alone
\* hat values: every combination of the four direction bits, and values of the
\* 8-bit field with bits outside them
HatValues == (0..15) \cup {16, 17, 128, 255}

\* a hat as SDLInputDevice::open leaves it, or after earlier samples
InitHat ==
    /\ InitMgr
    /\ sink = SinkIdle(FALSE)
    /\ ax = AxIdle
    /\ ht \in {[HtIdle EXCEPT !.state = s] : s \in HatValues}

\* one call of DiscretizeHatEvent on the hat
HatStep ==
    /\ \E now \in HatValues :
         LET r == DiscretizeHatEvent(ht.state, now)
         IN  ht' = [was |-> ht.state, state |-> r.state, now |-> now, out |-> r.out,
                    stepped |-> TRUE,
                    before |-> IF ht.stepped THEN ht.now ELSE -1,
                    outBefore |-> ht.out]
    /\ UNCHANGED <<mgrVars, ax>>

NextHat == HatStep

SpecHat == InitHat /\ [][NextHat]_vars

\* ================================================================ claims
Range(s) == {s[i] : i \in 1..Len(s)}

\* C1: a call of runInSDLThread returns only after the Worker has run the closure
\* passed to that same call: a caller that the Worker releases when it has run a
\* closure finds its own closure among the closures run. (Returns of cv.wait
\* without a notification are left aside; ranLog' # ranLog holds of a Worker step
\* that ran a closure while ranLog still records every run.)
C1_ReturnsAfterOwnClosure ==
    [][\A t \in Threads :
          (pc[t] = "cv_wait" /\ pc'[t] = "idle" /\ ranLog' # ranLog)
              => mine[t] \in Range(ranLog')]_vars

\* C2: the Worker runs the submitted closures once each, in the order their work
\* events were pushed: the k-th closure run is the k-th closure submitted.
C2_RunsInPushOrder == \A k \in 1..Len(ranLog) : ranLog[k] = k

\* C3: work submitted after the Worker left its loop is rejected: no thread is left
\* in cv.wait on such a submission, where nothing will notify it.
C3_LateSubmitNotBlocked == \A t \in Threads : ~(pc[t] = "cv_wait" /\ late[t])

\* C4: when the deadline elapses with the rumble request as the latest input, the
\* Worker stops actuation, is Idle afterwards and does not restart actuation.
C4_TimeoutReturnsToIdle ==
    (last.timedOut /\ e.type = "rumble") => (~rumble_end /\ ~last.started)

\* C5: no two entries of the device registry have the same slot index.
C5_UniqueSlots ==
    \A a \in DOMAIN devices, b \in DOMAIN devices :
        a # b => devices[a].index # devices[b].index

\* C6: a successful attach gives the new device the smallest non-negative integer
\* that is no slot of a registered device, and no step changes the slot of a
\* device that stays registered.
SmallestFree(used) == CHOOSE n \in 0..Cardinality(used) :
                          n \notin used /\ \A m \in 0..(n - 1) : m \in used

C6_SmallestFreeSlot ==
    [][/\ \A id \in DOMAIN devices' \ DOMAIN devices :
             id \in last'.added => devices'[id].index = SmallestFree(Slots(devices))
       /\ \A id \in DOMAIN devices \cap DOMAIN devices' :
             devices'[id].index = devices[id].index]_vars

\* C6 witness: with a device at slot 1 registered and slot 0 freed, the device
\* attached last received slot 0.
C6_Witness ==
    /\ \E c \in last.added : c \in DOMAIN devices /\ devices[c].index = 0
    /\ \E b \in DOMAIN devices : devices[b].index = 1 /\ devices[b].joystick
    /\ live = DOMAIN devices

\* C7: the registry holds only devices opened by an attach and not detached since.
C7_OnlyOpenedDevices == DOMAIN devices \subseteq live

\* C8: once the Worker has left its loop, every device an attach opened has been
\* closed and removed: the registry holds no open device.
C8_NoOpenDeviceAfterShutdown ==
    ~run => \A id \in DOMAIN devices : ~devices[id].joystick

\* C9: a work closure sees the registry as a completed handler left it, and every
\* attached device in it is complete: slot assigned, keyed by its instance id, open.
C9_ClosureSeesWholeDevices ==
    last.ran # NoClosure =>
        /\ last.obs = devices
        /\ \A id \in DOMAIN last.obs :
              /\ last.obs[id].index \in Nat
              /\ last.obs[id].joystick
                    => (last.obs[id].instance_id = id /\ id \in live)
              /\ last.obs[id].is_controller => last.obs[id].joystick

\* C9 witness: a closure ran and saw a device that an attach had registered.
C9_Witness ==
    /\ last.ran # NoClosure
    /\ \E id \in DOMAIN last.obs : last.obs[id].joystick

\* C10: the axis step emits nothing when pressed(last) = pressed(now), otherwise one
\* event with direction pressed(now) if non-zero else pressed(last) and
\* pressed = (pressed(now) # 0); the stored last sample becomes now.
C10_AxisStep ==
    ax.stepped =>
        LET hi == ax.center + ((32767 - ax.center) \div 3)
            lo == ax.center - ((ax.center + 32768) \div 3)
            p(v) == IF v > hi THEN 1 ELSE IF v < lo THEN -1 ELSE 0
        IN  /\ ax.then = ax.now
            /\ p(ax.was) = p(ax.now) => ax.out = NoEvent
            /\ p(ax.was) # p(ax.now) =>
                  /\ ax.out.some
                  /\ ax.out.direction = (IF p(ax.now) # 0 THEN p(ax.now) ELSE p(ax.was))
                  /\ ax.out.pressed = (p(ax.now) # 0)

\* C10 witness: a step on an off-centre axis left an extreme: a release is reported.
C10_Witness ==
    /\ ax.stepped
    /\ ax.center # 0
    /\ ax.out.some
    /\ ~ax.out.pressed
    /\ ax.out.direction = -1

\* C11: on an axis with center 0 no two consecutive events report the same direction
\* with the same pressed value: the event after "d pressed" is "d released" or
\* "-d pressed", the event after a release is a press; and the samples 0, 20000,
\* 20000, 0, -20000 give +1 pressed, nothing, +1 released, -1 pressed.
C11_NoRepeatedEvent ==
    (ax.stepped /\ ax.center = 0) =>
        /\ (ax.out.some /\ ax.prev.some) =>
              /\ ~(ax.out.direction = ax.prev.direction
                      /\ ax.out.pressed = ax.prev.pressed)
              /\ ax.prev.pressed =>
                    \/ (ax.out.direction = ax.prev.direction /\ ~ax.out.pressed)
                    \/ (ax.out.direction = -ax.prev.direction /\ ax.out.pressed)
              /\ ~ax.prev.pressed => ax.out.pressed
        /\ (ax.was = 0 /\ ax.now = 20000) =>
              ax.out = [some |-> TRUE, direction |-> 1, pressed |-> TRUE]
        /\ (ax.was = 20000 /\ ax.now = 20000) => ax.out = NoEvent
        /\ (ax.was = 20000 /\ ax.now = 0) =>
              ax.out = [some |-> TRUE, direction |-> 1, pressed |-> FALSE]
        /\ (ax.was = 0 /\ ax.now = -20000) =>
              ax.out = [some |-> TRUE, direction |-> -1, pressed |-> TRUE]

\* C11 witness: +1 was pressed, and the axis swung to the other side: -1 pressed is
\* reported with no release of +1 in between.
C11_Witness ==
    /\ ax.stepped
    /\ ax.center = 0
    /\ ax.prev = [some |-> TRUE, direction |-> 1, pressed |-> TRUE]
    /\ ax.out = [some |-> TRUE, direction |-> -1, pressed |-> TRUE]
    /\ ax.was = 20000
    /\ ax.now = -20000

\* C12 as stated: whenever the new 8-bit value differs from the stored one, the hat
\* step reports exactly one event, for the first of Up, Down, Left, Right whose bit
\* differs, pressed iff that bit is set in the new value, and stores the new value.
C12_EventOnEveryChange ==
    (ht.stepped /\ ht.was # ht.now) =>
        LET order == <<1, 4, 8, 2>>
            differs(s) == ((ht.was \div s) % 2) # ((ht.now \div s) % 2)
        IN  /\ ht.out.some
            /\ \E i \in 1..4 :
                  /\ differs(order[i])
                  /\ \A j \in 1..(i - 1) : ~differs(order[j])
                  /\ ht.out.direction = order[i]
                  /\ ht.out.pressed = (((ht.now \div order[i]) % 2) = 1)
            /\ ht.state = ht.now

\* C12 amended: whenever the new value differs from the stored one in one of the
\* four direction bits, the hat step reports exactly one event, for the first of Up,
\* Down, Left, Right whose bit differs, pressed iff that bit is set in the new value,
\* and stores the new value; when the two differ only in other bits, nothing is
\* reported and the stored value stays.
C12_EventOnDirectionChange ==
    ht.stepped =>
        LET order == <<1, 4, 8, 2>>
            differs(s) == ((ht.was \div s) % 2) # ((ht.now \div s) % 2)
        IN  /\ (ht.was % 16) # (ht.now % 16) =>
                  /\ ht.out.some
                  /\ \E i \in 1..4 :
                        /\ differs(order[i])
                        /\ \A j \in 1..(i - 1) : ~differs(order[j])
                        /\ ht.out.direction = order[i]
                        /\ ht.out.pressed = (((ht.now \div order[i]) % 2) = 1)
                  /\ ht.state = ht.now
            /\ (ht.was # ht.now /\ (ht.was % 16) = (ht.now % 16)) =>
                  /\ ht.out = NoHatEvent
                  /\ ht.state = ht.was

\* C12 witness: from the centred hat Right and Down are set at once: the one event
\* reports Down pressed, and the new value is stored.
C12_Witness ==
    /\ ht.stepped
    /\ ht.was = 0
    /\ ht.now = 6
    /\ ht.out = [some |-> TRUE, direction |-> 4, pressed |-> TRUE]
    /\ ht.state = 6

\* C13: a hat step reports an event only if the value differs from the stored one,
\* and a value fed a second time in a row reports nothing and leaves the stored
\* value as it was.
C13_SameBitsTwice ==
    ht.stepped =>
        /\ ht.out.some => ht.now # ht.was
        /\ ht.before = ht.now => (ht.out = NoHatEvent /\ ht.state = ht.was)

\* C13 witness: a value was fed twice in a row; the first step reported an event,
\* the second none.
C13_Witness ==
    /\ ht.stepped
    /\ ht.before = ht.now
    /\ ht.outBefore.some
    /\ ht.out = NoHatEvent
    /\ ht.state = ht.now

\* C14: when the open fails on an attach the registry is left as it was, the Worker
\* keeps running and the attach event is forwarded; when the open succeeds exactly
\* one entry, keyed by the device's instance id, is inserted.
C14_AttachInsertsOneEntry ==
    [][OnAdded =>
          /\ last'.emitted
          /\ run'
          /\ last'.opened = {} => devices' = devices
          /\ \A id \in last'.opened :
                /\ id \notin DOMAIN devices
                /\ DOMAIN devices' = DOMAIN devices \cup {id}
                /\ devices'[id].instance_id = id
                /\ \A k \in DOMAIN devices : devices'[k] = devices[k]]_vars

\* C15: a detach for an id that is not in the registry changes nothing and closes no
\* handle; a detach for a registered id closes that entry's handle once and removes
\* exactly that entry; the other entries stay as they were and the detach event is
\* forwarded in both cases.
C15_DetachRemovesOnlyThatEntry ==
    [][(e'.type = "removed" /\ OnRemoved) =>
          /\ last'.emitted
          /\ e'.which \notin DOMAIN devices =>
                (devices' = devices /\ last'.closed = {})
          /\ e'.which \in DOMAIN devices =>
                /\ DOMAIN devices' = DOMAIN devices \ {e'.which}
                /\ last'.closed = {e'.which}
                /\ \A k \in DOMAIN devices' : devices'[k] = devices[k]]_vars

\* C15 witness: with an opened device registered, a detach event for an id that is
\* not in the registry was dequeued and forwarded; nothing was removed or closed.
C15_Witness ==
    /\ e.type = "removed"
    /\ ~last.timedOut
    /\ last.emitted
    /\ last.removed = {}
    /\ last.closed = {}
    /\ \E id \in DOMAIN devices : devices[id].joystick /\ id # e.which

\* C16: a discretizer call for a sample whose device is no longer in the registry
\* ends without an exception (here: a sample the Worker forwarded while the device
\* was open, handled after the detach).
C16_UnknownInstanceNoError == ~(sink.threw /\ sink.cur.open)

\* C17: an iteration whose wait timed out only stops actuation and clears the
\* deadline: it forwards no event, runs no closure, opens, adds and removes no
\* device and starts no actuation.
C17_TimeoutDispatchesNothing ==
    last.timedOut =>
        /\ ~last.emitted
        /\ last.ran = NoClosure
        /\ last.opened = {}
        /\ last.added = {}
        /\ last.removed = {}
        /\ ~last.started

\* C18: while a discretizer call is between taking its reference to a device and
\* writing the device's stored state, RemoveDevice does not run: the device, open
\* when its sample was forwarded, is not erased under the call.
C18_DeviceNotErasedUnderCall ==
    (sink.pc = "axis_mid" /\ sink.cur.open) => sink.ref \in DOMAIN devices

\* C19: with a deadline pending, an iteration that handles an input other than a
\* rumble request leaves the deadline pending and makes no stop call; stop calls are
\* made only by an iteration whose wait timed out.
C19_OnlyTimeoutStops ==
    [][/\ (rumble_end /\ ~last'.timedOut /\ e'.type # "rumble") => rumble_end'
       /\ ~last'.timedOut => (~last'.stopped /\ last'.stopTo = {})]_vars

\* C19 witness: with a deadline pending the Worker dequeued and forwarded a button
\* event; the deadline is still pending and no stop call was made.
C19_Witness ==
    /\ rumble_end
    /\ e.type = "button"
    /\ last.emitted
    /\ ~last.timedOut
    /\ ~last.stopped

\* the open devices of controller kind in the registry
Controllers(devs) == {id \in DOMAIN devs : devs[id].joystick /\ devs[id].is_controller}

\* C20 as stated: handling a rumble request, the Worker makes a start call with the
\* tuple of that request for exactly the open controller-kind devices; on expiry of
\* the deadline it makes a stop call for exactly those devices.
C20_RumbleWithRequestedTuple ==
    [][/\ (last'.started /\ OnRumble) =>
             /\ last'.startTo = Controllers(devices)
             /\ last'.params = e'.which
       /\ (last'.timedOut /\ Worker) =>
             /\ last'.stopped
             /\ last'.stopTo = Controllers(devices)]_vars

\* C20 amended: handling a rumble event, the Worker makes a start call with the
\* tuple stored by the latest call of rumble() for exactly the open controller-kind
\* devices; on expiry of the deadline it makes a stop call for exactly those devices.
C20_RumbleWithStoredTuple ==
    [][/\ (last'.started /\ OnRumble) =>
             /\ last'.startTo = Controllers(devices)
             /\ last'.params = rumble_data
       /\ (last'.timedOut /\ Worker) =>
             /\ last'.stopped
             /\ last'.stopTo = Controllers(devices)]_vars

\* C20 witness: with a game controller and a plain joystick open, a rumble request
\* was handled: the start call reached the controller and not the joystick.
C20_Witness ==
    /\ last.started
    /\ ~last.timedOut
    /\ last.params = rumble_data
    /\ \E c \in last.startTo, j \in DOMAIN devices \ last.startTo :
          /\ c \in DOMAIN devices
          /\ devices[c].is_controller
          /\ devices[j].joystick
          /\ ~devices[j].is_controller

====
